---------------------------- MODULE Spec2Model ----------------------------
(***************************************************************************)
(* Jet Atlas: the asynchronous enrichment layer.                           *)
(*                                                                         *)
(*   - useWikiSummaries (hooks/useWikiSummaries): per-title summary cache  *)
(*     with cancelable concurrent fetches.                                 *)
(*   - ModelViewer's asset probe: sequential HEAD checks over the          *)
(*     candidates of a model path.                                         *)
(*                                                                         *)
(* A JavaScript string is a sequence of one-character strings.  React's    *)
(* render and its passive effects are separate steps: a render commits     *)
(* the new props, the effect flush that follows it runs the cleanup of     *)
(* the previous effect and then the new effect body.  Everything between   *)
(* two awaits runs in one step (run to completion).                        *)
(***************************************************************************)
EXTENDS Integers, Sequences, FiniteSets, TLC

\* ------------------------------------------------------------------ bounds
\* Number of loads (effect runs that create a load) in one behaviour.
MaxLoads == 3

\* --------------------------------------------------------- string helpers
\* The separator of titlesKey, '\0'.
NUL == "NUL"

\* Array.prototype.join('\0')
RECURSIVE Join(_)
Join(list) ==
  IF list = <<>> THEN <<>>
  ELSE IF Len(list) = 1 THEN list[1]
  ELSE list[1] \o <<NUL>> \o Join(Tail(list))

\* String.prototype.split('\0'): "" splits to [""]
RECURSIVE Split(_)
Split(s) ==
  LET I == {i \in 1..Len(s) : s[i] = NUL} IN
  IF I = {} THEN <<s>>
  ELSE LET i == CHOOSE j \in I : \A k \in I : j <= k IN
       <<SubSeq(s, 1, i - 1)>> \o Split(SubSeq(s, i + 1, Len(s)))

\* Array.prototype.filter(Boolean) on strings: drops the empty string
IsTruthy(t) == t # <<>>
FilterBoolean(list) == SelectSeq(list, IsTruthy)

\* [...new Set(list)]: first occurrences, in order
RECURSIVE Unique(_)
Unique(list) ==
  IF list = <<>> THEN <<>>
  ELSE LET front == Unique(SubSeq(list, 1, Len(list) - 1))
           last  == list[Len(list)] IN
       IF \E i \in 1..Len(front) : front[i] = last THEN front
       ELSE Append(front, last)

Range(s) == {s[i] : i \in 1..Len(s)}

\* ------------------------------------------------------ useWikiSummaries
\* Page titles the caller may pass; the empty string stands for every falsy
\* entry.  Wikipedia page titles hold no control character.
Falsy == <<>>
F22 == <<"F", "2", "2">>
Su == <<"S", "u">>
\* The title lists a render may pass: empty, only falsy entries, a
\* duplicate around a falsy entry, and two titles.
TitleLists ==
  { <<>>, <<Falsy>>, <<F22, Falsy, F22>>, <<Su, F22>> }

\* Bodies a 2xx response may carry: two parsable payloads and one that
\* response.json() rejects.
Payloads == {"p1", "p2"}
Garbage == "garbage"

NullV == <<"null">>
\* fetchSummary's record, a function of the payload alone
SummaryOf(payload) == <<"summary", payload>>

\* currentTitles without its filter(Boolean)
currentTitlesUnfiltered(key) == Split(key)

uniqueTitles(list) == Unique(FilterBoolean(list))
titlesKey(list) == Join(uniqueTitles(list))
currentTitles(key) == FilterBoolean(Split(key))

\* a lookup by truthiness, cacheRef.current[title], instead of Object.hasOwn
InCacheTruthy(c, title) == title \in DOMAIN c /\ c[title] # NullV

\* Object.hasOwn(cacheRef.current, title)
InCache(c, title) == title \in DOMAIN c
\* cacheRef.current[title] = value
CachePut(c, title, value) ==
  [k \in (DOMAIN c) \cup {title} |-> IF k = title THEN value ELSE c[k]]

\* a catch block that caches null for every error, an abort included
CacheEveryError(name) == TRUE
\* a catch block that caches nothing
CacheNoError(name) == FALSE

\* error?.name !== 'AbortError'
NotAbortError(name) == name # "AbortError"

\* Object.fromEntries(results): a later pair wins over an earlier one
FromEntries(ts, vs) ==
  [k \in Range(ts) |->
     vs[CHOOSE i \in 1..Len(ts) :
          ts[i] = k /\ \A j \in 1..Len(ts) : ts[j] = k => j <= i]]

EmptyMap == [k \in {} |-> NullV]

VARIABLES
  titles,      \* the titles prop of the last render
  effPending,  \* the last render scheduled the effect and it has not run
  deps,        \* <<titlesKey>> of the last effect run, <<>> before the first
  mounted,     \* the hook's component is mounted
  cacheRef,    \* cacheRef.current: title -> summary | null
  items,       \* the state returned to the caller
  loads,       \* every load() started so far, oldest first
  cur,         \* index in loads of the last effect's load, 0 when it made none
  nWrites      \* history: title -> number of cache writes for it

wikiVars == <<titles, effPending, deps, mounted, cacheRef, items, loads, cur,
              nWrites>>

\* ModelViewer's state (the probe is defined below)
VARIABLES
  model,         \* the model prop of the last render
  vEffPending,   \* the last render scheduled the effect and it has not run
  vMounted,      \* the viewer is mounted
  availability,  \* 'checking' | 'ready' | 'missing'
  resolvedPath,  \* the resolvedPath state
  probes,        \* every verify() started so far, oldest first
  requests       \* the HEAD requests in flight, [probe, url]

probeVars == <<model, vEffPending, vMounted, availability, resolvedPath,
               probes, requests>>

\* The analyze scoring (AircraftProfile.jsx)
VARIABLES
  aircraftList,  \* the list the stats were built from
  metricStats,   \* buildMetricStats(aircraftList)
  subject,       \* the aircraft of the last normalizedMetric call
  normalized,    \* the metric key and the value of that call
  result         \* the last call of a scoring function: [fn, arg, value]

scoreVars == <<aircraftList, metricStats, subject, normalized, result>>

\* The comparison set (AppContent)
VARIABLES
  compareIds,  \* the compareIds state
  lastOp       \* history: the last operation, its argument and the list before

compareVars == <<compareIds, lastOp>>

vars == <<wikiVars, probeVars, scoreVars, compareVars>>


\* The load an effect run starts (lines 43-73, up to the first await of
\* each title): a cached title returns its cached value, any other title
\* has its request issued.
StartLoad(ts, c) ==
  [ keys    |-> ts,
    alive   |-> TRUE,
    st      |-> [i \in 1..Len(ts) |->
                   IF InCache(c, ts[i]) THEN "cached" ELSE "headers"],
    val     |-> [i \in 1..Len(ts) |->
                   IF InCache(c, ts[i]) THEN c[ts[i]] ELSE NullV],
    err     |-> [i \in 1..Len(ts) |-> ""],
    settled |-> FALSE ]

\* A request that controller.abort() still reaches
InFlight(s) == s \in {"headers", "body"}

\* The effect's cleanup (lines 75-78): alive = false, controller.abort()
Cleanup(ld) ==
  [ld EXCEPT !.alive = FALSE,
             !.st = [i \in 1..Len(ld.keys) |->
                       IF InFlight(ld.st[i]) THEN "aborting" ELSE ld.st[i]]]

CleanupCur(lds, c) == IF c = 0 THEN lds ELSE [lds EXCEPT ![c] = Cleanup(@)]

WikiInit ==
  /\ titles \in TitleLists
  /\ effPending = TRUE
  /\ deps = <<>>
  /\ mounted = TRUE
  /\ cacheRef = EmptyMap
  /\ items = EmptyMap
  /\ loads = <<>>
  /\ cur = 0
  /\ nWrites = [k \in {} |-> 0]

\* A re-render with a new titles prop; the effect is scheduled when
\* titlesKey differs from the dependency of the last run.
Render(newTitles) ==
  /\ mounted /\ ~effPending
  /\ Len(loads) < MaxLoads
  /\ titles' = newTitles
  /\ effPending' = (deps = <<>> \/ titlesKey(newTitles) # deps[1])
  /\ UNCHANGED <<deps, mounted, cacheRef, items, loads, cur, nWrites>>
  /\ UNCHANGED <<probeVars, scoreVars, compareVars>>

\* The effect flush: cleanup of the previous effect, then lines 40-73.
FlushEffect ==
  /\ mounted /\ effPending
  /\ LET key     == titlesKey(titles)
         ts      == currentTitles(key)
         cleaned == CleanupCur(loads, cur) IN
     /\ deps' = <<key>>
     /\ IF Len(ts) = 0
        THEN /\ loads' = cleaned
             /\ cur' = 0
        ELSE /\ loads' = Append(cleaned, StartLoad(ts, cacheRef))
             /\ cur' = Len(loads) + 1
  /\ effPending' = FALSE
  /\ UNCHANGED <<titles, mounted, cacheRef, items, nWrites>>
  /\ UNCHANGED <<probeVars, scoreVars, compareVars>>

\* The component is torn down: the last effect's cleanup runs.
Unmount ==
  /\ mounted /\ ~effPending
  /\ mounted' = FALSE
  /\ loads' = CleanupCur(loads, cur)
  /\ cur' = 0
  /\ UNCHANGED <<titles, effPending, deps, cacheRef, items, nWrites>>
  /\ UNCHANGED <<probeVars, scoreVars, compareVars>>

Counted(n, title) ==
  [k \in (DOMAIN n) \cup {title} |->
     IF k = title THEN (IF k \in DOMAIN n THEN n[k] + 1 ELSE 1) ELSE n[k]]

\* Lines 54-56: fetchSummary returned `summary`
Stored(l, i, summary) ==
  /\ cacheRef' = CachePut(cacheRef, loads[l].keys[i], summary)
  /\ nWrites' = Counted(nWrites, loads[l].keys[i])
  /\ loads' = [loads EXCEPT ![l].st[i] = "stored", ![l].val[i] = summary]

\* Lines 57-64: fetchSummary threw an error of that name
Caught(l, i, name) ==
  /\ IF NotAbortError(name)
     THEN /\ cacheRef' = CachePut(cacheRef, loads[l].keys[i], NullV)
          /\ nWrites' = Counted(nWrites, loads[l].keys[i])
     ELSE UNCHANGED <<cacheRef, nWrites>>
  /\ loads' = [loads EXCEPT ![l].st[i] = "caught", ![l].val[i] = NullV,
                            ![l].err[i] = name]

\* fetch() settles: a network error rejects with a TypeError, a non-success
\* status makes fetchSummary return null, a success status goes on to
\* response.json().
FetchResponds(l, i, outcome) ==
  /\ l \in 1..Len(loads) /\ i \in 1..Len(loads[l].keys)
  /\ loads[l].st[i] = "headers"
  /\ CASE outcome = "neterr" -> Caught(l, i, "TypeError")
       [] outcome = "notok"  -> Stored(l, i, NullV)
       [] outcome = "ok"     -> /\ loads' = [loads EXCEPT ![l].st[i] = "body"]
                                /\ UNCHANGED <<cacheRef, nWrites>>
  /\ UNCHANGED <<titles, effPending, deps, mounted, items, cur>>
  /\ UNCHANGED <<probeVars, scoreVars, compareVars>>

\* response.json() settles: a payload gives the record, an unparsable body
\* rejects with a SyntaxError.
BodyArrives(l, i, body) ==
  /\ l \in 1..Len(loads) /\ i \in 1..Len(loads[l].keys)
  /\ loads[l].st[i] = "body"
  /\ IF body = Garbage
     THEN Caught(l, i, "SyntaxError")
     ELSE Stored(l, i, SummaryOf(body))
  /\ UNCHANGED <<titles, effPending, deps, mounted, items, cur>>
  /\ UNCHANGED <<probeVars, scoreVars, compareVars>>

\* The rejection of an aborted request reaches the catch block.
AbortDelivered(l, i) ==
  /\ l \in 1..Len(loads) /\ i \in 1..Len(loads[l].keys)
  /\ loads[l].st[i] = "aborting"
  /\ Caught(l, i, "AbortError")
  /\ UNCHANGED <<titles, effPending, deps, mounted, items, cur>>
  /\ UNCHANGED <<probeVars, scoreVars, compareVars>>

Returned(s) == s \in {"cached", "stored", "caught"}

\* setItems without the alive check
MayCommitAlways(ld) == TRUE

\* if (alive)
MayCommit(ld) == ld.alive

\* Promise.all resolved (lines 68-70)
Settle(l) ==
  /\ l \in 1..Len(loads)
  /\ ~loads[l].settled
  /\ \A i \in 1..Len(loads[l].keys) : Returned(loads[l].st[i])
  /\ loads' = [loads EXCEPT ![l].settled = TRUE]
  /\ IF MayCommit(loads[l])
     THEN items' = FromEntries(loads[l].keys, loads[l].val)
     ELSE UNCHANGED items
  /\ UNCHANGED <<titles, effPending, deps, mounted, cacheRef, cur, nWrites>>
  /\ UNCHANGED <<probeVars, scoreVars, compareVars>>

WikiNext ==
  \/ \E t \in TitleLists : Render(t)
  \/ FlushEffect
  \/ Unmount
  \/ \E l \in 1..Len(loads) : \E i \in 1..Len(loads[l].keys) :
     \E
        o \in {"neterr", "notok", "ok"} : FetchResponds(l, i, o)
  \/ \E l \in 1..Len(loads) : \E i \in 1..Len(loads[l].keys) :
     \E
        b \in Payloads \cup {Garbage} : BodyArrives(l, i, b)
  \/ \E l \in 1..Len(loads) : \E i \in 1..Len(loads[l].keys) :
        AbortDelivered(l, i)
  \/ \E l \in 1..Len(loads) : Settle(l)


\* ------------------------------------------------------------ ModelViewer
\* Number of probes (effect runs of ModelViewer) in one behaviour.
MaxProbes == 2

\* A JavaScript value: its typeof tag and, for a string, its characters.
\* A path string is cut into its separators and segments.
Str(s) == [t |-> "string", s |-> s]
Undefined == [t |-> "undefined", s |-> <<>>]
NullJ == [t |-> "null", s |-> <<>>]
\* a path that is no string (a truthy number)
NumberJ == [t |-> "number", s |-> <<>>]

\* !!value, for the values above
Truthy(v) == (v.t = "string" /\ v.s # <<>>) \/ v.t = "number"

VerifiedPrefix == <<"/", "models", "/", "verified", "/">>
UnverifiedPrefix == <<"/", "models", "/", "unverified", "/">>

\* String.prototype.startsWith
StartsWith(s, prefix) ==
  Len(s) >= Len(prefix) /\ SubSeq(s, 1, Len(prefix)) = prefix

\* String.prototype.indexOf, 1-based, 0 when absent
IndexOf(s, pat) ==
  LET I == {i \in 1..(Len(s) - Len(pat) + 1) :
              SubSeq(s, i, i + Len(pat) - 1) = pat} IN
  IF I = {} THEN 0 ELSE CHOOSE i \in I : \A j \in I : i <= j

\* String.prototype.replace with a string pattern: the first occurrence
ReplaceFirst(s, pat, rep) ==
  LET i == IndexOf(s, pat) IN
  IF i = 0 THEN s
  ELSE SubSeq(s, 1, i - 1) \o rep \o SubSeq(s, i + Len(pat), Len(s))

\* candidates without the unverified fallback
modelPathCandidatesPrimaryOnly(path) ==
  IF path.t # "string" \/ Len(path.s) = 0 THEN <<>> ELSE <<path.s>>

modelPathCandidates(path) ==
  IF path.t # "string" \/ Len(path.s) = 0 THEN <<>>
  ELSE IF ~StartsWith(path.s, VerifiedPrefix) THEN <<path.s>>
  ELSE LET fallbackPath == ReplaceFirst(path.s, VerifiedPrefix, UnverifiedPrefix) IN
       IF fallbackPath = path.s THEN <<path.s>> ELSE <<path.s, fallbackPath>>

\* The model prop: null, or a manifest entry with its path.
NoModel == [present |-> FALSE, path |-> Undefined]
Entry(path) == [present |-> TRUE, path |-> path]
\* model?.path
PathOf(m) == IF m.present THEN m.path ELSE Undefined

VerifiedF22 == VerifiedPrefix \o <<"f22.glb">>
UnverifiedSu57 == UnverifiedPrefix \o <<"su57.glb">>
\* holds the verified prefix, not at its start
Nested == <<"/", "assets">> \o VerifiedPrefix \o <<"x.glb">>
\* holds the verified prefix twice
Twice == VerifiedPrefix \o VerifiedPrefix \o <<"y.glb">>

Models ==
  { NoModel, Entry(Undefined), Entry(Str(<<>>)), Entry(NumberJ),
    Entry(Str(VerifiedF22)), Entry(Str(UnverifiedSu57)),
    Entry(Str(Nested)), Entry(Str(Twice)), Entry(Str(VerifiedPrefix)) }

\* What a HEAD request may end in: a success status, 405, any other
\* status, or fetch throwing.
HeadOutcomes == {"ok", "405", "other", "throw"}

\* response.ok || response.status === 405
Exists(outcome) == outcome = "ok" \/ outcome = "405"


\* every candidate requested at once when the loop starts
ChecksAllAtOnce(cands, i) == IF i = 1 THEN Range(cands) ELSE {}

\* The requests the loop issues on reaching candidate i (line 214)
Checks(cands, i) == IF i <= Len(cands) THEN {cands[i]} ELSE {}

\* a superseded probe carries on as if it were current
SupersededNever(pr) == FALSE

\* if (!active) return
Superseded(pr) == ~pr.active

\* only an absent model or an absent path counts as "no path"
NoPathAbsentOnly(path) == path.t = "undefined"

\* !model?.path (line 203)
NoPath(path) == ~Truthy(path)

\* the last candidate tried is reported instead of the manifest's path
MissingPathLastTried(pr) ==
  IF pr.cands = <<>> THEN pr.path ELSE Str(pr.cands[Len(pr.cands)])

\* setResolvedPath(model.path) once every candidate has failed (line 228)
MissingPath(pr) == pr.path

\* verify() as the effect starts it (lines 200-214, up to the first await)
NewProbe(path) ==
  [ path      |-> path,
    active    |-> TRUE,
    cands     |-> IF NoPath(path) THEN <<>> ELSE modelPathCandidates(path),
    idx       |-> 0,
    pc        |-> "start",
    issued    |-> <<>>,   \* history: the urls requested, in order
    outcomes  |-> <<>>,   \* history: how each request ended
    wrote     |-> "none", \* history: the last availability this probe set
    wrotePath |-> NullJ ] \* history: the last resolved path this probe set

\* falling out of the loop leaves no verdict behind
LoopAtNoVerdict(pr, i) ==
  IF i <= Len(pr.cands)
  THEN [pr EXCEPT !.idx = i, !.pc = "await",
                  !.issued = Append(@, pr.cands[i])]
  ELSE [pr EXCEPT !.idx = i, !.pc = "done"]

\* The for loop reaches candidate i (lines 212-214), or falls out of it
\* (lines 227-229).
LoopAt(pr, i) ==
  IF i <= Len(pr.cands)
  THEN [pr EXCEPT !.idx = i, !.pc = "await",
                  !.issued = Append(@, pr.cands[i])]
  ELSE [pr EXCEPT !.idx = i, !.pc = "done",
                  !.wrote = "missing", !.wrotePath = MissingPath(pr)]

\* Lines 234-236
Deactivate(prs) ==
  IF prs = <<>> THEN prs ELSE [prs EXCEPT ![Len(prs)].active = FALSE]

ProbeInit ==
  /\ model \in Models
  /\ vEffPending = TRUE
  /\ vMounted = TRUE
  /\ availability = (IF model.present THEN "checking" ELSE "missing")
  /\ resolvedPath = (IF Truthy(PathOf(model)) THEN PathOf(model) ELSE NullJ)
  /\ probes = <<>>
  /\ requests = {}

\* A re-render with another model prop
VRender(m) ==
  /\ vMounted /\ ~vEffPending
  /\ Len(probes) < MaxProbes
  /\ model' = m
  /\ vEffPending' = (m # model)
  /\ UNCHANGED <<vMounted, availability, resolvedPath, probes, requests>>
  /\ UNCHANGED <<wikiVars, scoreVars, compareVars>>

\* The effect flush: the previous effect's cleanup, then verify() up to its
\* first await.
VFlushEffect ==
  /\ vMounted /\ vEffPending
  /\ vEffPending' = FALSE
  /\ LET n    == Len(probes) + 1
         path == PathOf(model)
         pr   == NewProbe(path) IN
     IF NoPath(path)
     THEN /\ availability' = "missing"
          /\ resolvedPath' = NullJ
          /\ probes' = Append(Deactivate(probes),
                              [pr EXCEPT !.pc = "done", !.wrote = "missing"])
          /\ UNCHANGED requests
     ELSE LET nx == LoopAt([pr EXCEPT !.wrote = "checking"], 1) IN
          /\ probes' = Append(Deactivate(probes), nx)
          /\ requests' = requests \cup
                           {[probe |-> n, url |-> u] : u \in Checks(pr.cands, 1)}
          /\ IF nx.pc = "done"
             THEN /\ availability' = "missing"
                  /\ resolvedPath' = MissingPath(pr)
             ELSE /\ availability' = "checking"
                  /\ UNCHANGED resolvedPath
  /\ UNCHANGED <<model, vMounted>>
  /\ UNCHANGED <<wikiVars, scoreVars, compareVars>>

\* The viewer is torn down.
VUnmount ==
  /\ vMounted /\ ~vEffPending
  /\ vMounted' = FALSE
  /\ probes' = Deactivate(probes)
  /\ UNCHANGED <<model, vEffPending, availability, resolvedPath, requests>>
  /\ UNCHANGED <<wikiVars, scoreVars, compareVars>>

\* The awaited HEAD request of probe n ends (lines 214-225, and on to the
\* next await or to lines 227-229).
HeadResponds(n, outcome) ==
  /\ n \in 1..Len(probes)
  /\ probes[n].pc = "await"
  /\ LET pr   == probes[n]
         cand == pr.cands[pr.idx]
         req  == [probe |-> n, url |-> cand]
         got  == [pr EXCEPT !.outcomes = Append(@, outcome)] IN
     /\ req \in requests
     /\ IF Superseded(pr)
        THEN /\ probes' = [probes EXCEPT ![n] = [got EXCEPT !.pc = "done"]]
             /\ requests' = requests \ {req}
             /\ UNCHANGED <<availability, resolvedPath>>
        ELSE IF Exists(outcome)
        THEN /\ probes' = [probes EXCEPT ![n] =
                  [got EXCEPT !.pc = "done", !.wrote = "ready",
                              !.wrotePath = Str(cand)]]
             /\ requests' = requests \ {req}
             /\ resolvedPath' = Str(cand)
             /\ availability' = "ready"
        ELSE LET nx == LoopAt(got, pr.idx + 1) IN
             /\ probes' = [probes EXCEPT ![n] = nx]
             /\ requests' = (requests \ {req}) \cup
                   {[probe |-> n, url |-> u] : u \in Checks(pr.cands, pr.idx + 1)}
             /\ IF nx.pc = "done"
                THEN /\ resolvedPath' = MissingPath(pr)
                     /\ availability' = "missing"
                ELSE UNCHANGED <<availability, resolvedPath>>
  /\ UNCHANGED <<model, vEffPending, vMounted>>
  /\ UNCHANGED <<wikiVars, scoreVars, compareVars>>

ProbeNext ==
  \/ \E m \in Models : VRender(m)
  \/ VFlushEffect
  \/ VUnmount
  \/ \E n \in 1..Len(probes) : \E o \in HeadOutcomes : HeadResponds(n, o)

\* What the render returns (lines 239-253): the not-found fallback, the
\* verifying indicator, or the canvas.
Shown ==
  IF ~model.present THEN "FallbackMessage"
  ELSE IF availability = "checking" \/ ~Truthy(resolvedPath)
  THEN "VERIFYING_MODEL_PATH"
  ELSE IF availability = "missing" THEN "FallbackMessage"
  ELSE "Canvas"

\* ------------------------------------------------------- analyze scoring
MaxFleet == 3

\* JavaScript numbers that are finite, as fractions <<numerator, denominator>>
\* in lowest terms with a positive denominator.
Abs(n) == IF n < 0 THEN -n ELSE n

RECURSIVE GCD(_, _)
GCD(a, b) == IF b = 0 THEN a ELSE GCD(b, a % b)

Frac(n, d) ==
  LET g == GCD(Abs(n), Abs(d))
      s == IF d < 0 THEN -1 ELSE 1
  IN <<(s * n) \div g, (s * d) \div g>>
Zero == <<0, 1>>
One == <<1, 1>>
Sub(a, b) == Frac(a[1] * b[2] - b[1] * a[2], a[2] * b[2])
\* a / b for b # 0
Div(a, b) == Frac(a[1] * b[2], a[2] * b[1])
Leq(a, b) == a[1] * b[2] <= b[1] * a[2]
MathMax(a, b) == IF Leq(a, b) THEN b ELSE a
MathMin(a, b) == IF Leq(a, b) THEN a ELSE b
\* Math.min(...values), Math.max(...values) of a non-empty array
MathMinOf(values) == CHOOSE v \in Range(values) : \A w \in Range(values) : Leq(v, w)
MathMaxOf(values) == CHOOSE v \in Range(values) : \A w \in Range(values) : Leq(w, v)

\* The values an attribute of an aircraft record can hold. v is the number
\* itself, or the number a string reads as.
Num(n, d) == [t |-> "number", v |-> Frac(n, d)]
NaNV == [t |-> "nan", v |-> Zero]
InfinityV == [t |-> "infinity", v |-> Zero]
StrV(n) == [t |-> "string", v |-> Frac(n, 1)]
Absent == [t |-> "undefined", v |-> Zero]

\* aircraft[metric.key]
Prop(aircraft, key) == IF key \in DOMAIN aircraft THEN aircraft[key] ELSE Absent

ANALYZE_METRICS == <<
  [key |-> "topSpeedKmh",        higherBetter |-> TRUE,  weight |-> Frac(6, 5)],
  [key |-> "rangeKm",            higherBetter |-> TRUE,  weight |-> Frac(11, 10)],
  [key |-> "combatRadiusKm",     higherBetter |-> TRUE,  weight |-> Frac(11, 10)],
  [key |-> "serviceCeilingM",    higherBetter |-> TRUE,  weight |-> Frac(9, 10)],
  [key |-> "thrustKn",           higherBetter |-> TRUE,  weight |-> Frac(11, 10)],
  [key |-> "climbRateMs",        higherBetter |-> TRUE,  weight |-> One],
  [key |-> "payloadKg",          higherBetter |-> TRUE,  weight |-> One],
  [key |-> "hardpoints",         higherBetter |-> TRUE,  weight |-> Frac(3, 5)],
  [key |-> "radarRangeKm",       higherBetter |-> TRUE,  weight |-> One],
  [key |-> "stealthScore",       higherBetter |-> TRUE,  weight |-> Frac(6, 5)],
  [key |-> "maxTakeoffWeightKg", higherBetter |-> TRUE,  weight |-> Frac(7, 10)],
  [key |-> "unitCostMUsd",       higherBetter |-> FALSE, weight |-> Frac(9, 10)] >>

MetricKeys == {ANALYZE_METRICS[i].key : i \in 1..Len(ANALYZE_METRICS)}

\* The aircraft records the lists are drawn from: the example values 1000,
\* 2000, 2000, values half a unit apart, and attributes that are absent, NaN,
\* infinite, strings, negative or beyond the others. A name is its sequence
\* of characters (F15, F22, F2, J20, SU, F1).
AircraftA ==
  [name |-> <<"F", "1", "5">>, topSpeedKmh |-> Num(1000, 1), rangeKm |-> Num(3000, 1),
   stealthScore |-> Num(15, 2), unitCostMUsd |-> Num(80, 1)]
AircraftB ==
  [name |-> <<"F", "2", "2">>, topSpeedKmh |-> Num(2000, 1), rangeKm |-> Num(3000, 1),
   stealthScore |-> Num(8, 1)]
AircraftC ==
  [name |-> <<"F", "2">>, topSpeedKmh |-> Num(2000, 1), rangeKm |-> StrV(4000),
   stealthScore |-> Num(8, 1), unitCostMUsd |-> NaNV]
AircraftD ==
  [name |-> <<"J", "2", "0">>, topSpeedKmh |-> InfinityV, rangeKm |-> Num(5000, 1),
   stealthScore |-> Num(-1, 1), unitCostMUsd |-> Num(1, 2)]
AircraftE ==
  [name |-> <<"S", "U">>, topSpeedKmh |-> Num(3000, 1), rangeKm |-> Num(3500, 1),
   stealthScore |-> Num(19, 2), unitCostMUsd |-> Num(300, 1),
   thrustKn |-> Num(156, 1), payloadKg |-> Num(9000, 1)]
\* F1 has the values of F22 but for a cost that is NaN instead of absent, so
\* the two score alike under any stats.
AircraftF ==
  [name |-> <<"F", "1">>, topSpeedKmh |-> Num(2000, 1),
   rangeKm |-> Num(3000, 1), stealthScore |-> Num(8, 1),
   unitCostMUsd |-> NaNV]
AircraftPool ==
  {AircraftA, AircraftB, AircraftC, AircraftD, AircraftE, AircraftF}
FleetLists == UNION {[1..n -> AircraftPool] : n \in 0..MaxFleet}

\* a numeric-looking string is read as its number
valueOrZeroCoercing(value) ==
  IF value.t \in {"number", "string"} THEN value.v ELSE Zero

\* typeof value === 'number' && Number.isFinite(value) ? value : 0
valueOrZero(value) == IF value.t = "number" THEN value.v ELSE Zero

buildMetricStats(list) ==
  [k \in MetricKeys |->
     LET values == [i \in 1..Len(list) |-> valueOrZero(Prop(list[i], k))]
         min    == IF Len(values) # 0 THEN MathMinOf(values) ELSE Zero
         max    == IF Len(values) # 0 THEN MathMaxOf(values) ELSE One
     IN [min |-> min, max |-> max, span |-> MathMax(Sub(max, min), One)]]

\* the result is handed back as computed
Clamp01None(x) == x

\* Math.max(0, Math.min(1, normalized))
Clamp01(x) == MathMax(Zero, MathMin(One, x))

\* a tie is normalized like any other spread
normalizedMetricNoTie(aircraft, metric, stats) ==
  IF metric.key \notin DOMAIN stats THEN Zero
  ELSE LET st       == stats[metric.key]
           value    == valueOrZero(Prop(aircraft, metric.key))
           baseline == Div(Sub(value, st.min), st.span)
       IN Clamp01(IF metric.higherBetter THEN baseline ELSE Sub(One, baseline))

normalizedMetric(aircraft, metric, stats) ==
  IF metric.key \notin DOMAIN stats THEN Zero
  ELSE LET st    == stats[metric.key]
           value == valueOrZero(Prop(aircraft, metric.key)) IN
       IF st.max = st.min THEN One
       ELSE LET baseline == Div(Sub(value, st.min), st.span)
                norm     == IF metric.higherBetter THEN baseline
                            ELSE Sub(One, baseline)
            IN Clamp01(norm)

\* ------------------------------------------------ scores, ranks, leaders
Add(a, b) == Frac(a[1] * b[2] + b[1] * a[2], a[2] * b[2])
Mul(a, b) == Frac(a[1] * b[1], a[2] * b[2])
Hundred == <<100, 1>>

\* the fraction is cut off
MathTrunc(x) == x[1] \div x[2]

\* Math.round(x): the nearest integer, a half going up
MathRound(x) == (2 * x[1] + x[2]) \div (2 * x[2])

\* The sign of a number, as a sort comparator's result is used.
Sign(x) == IF x[1] < 0 THEN -1 ELSE IF x[1] = 0 THEN 0 ELSE 1

\* The characters of the names, in collation order; for digits and capital
\* letters it is the order of their code units too.
Collation == <<"0", "1", "2", "5", "F", "J", "S", "U">>
CharRank(c) == CHOOSE i \in 1..Len(Collation) : Collation[i] = c

\* a.localeCompare(b) as -1, 0 or 1
RECURSIVE localeCompare(_, _)
localeCompare(a, b) ==
  IF a = <<>> THEN (IF b = <<>> THEN 0 ELSE -1)
  ELSE IF b = <<>> THEN 1
  ELSE IF CharRank(Head(a)) < CharRank(Head(b)) THEN -1
  ELSE IF CharRank(Head(a)) > CharRank(Head(b)) THEN 1
  ELSE localeCompare(Tail(a), Tail(b))

\* [...array].sort(compare): the array in the order of compare; elements
\* that compare equal keep their order (the sort is stable).
ArraySort(array, compare(_, _)) ==
  LET n == Len(array)
      before(j, i) == \/ compare(array[j], array[i]) < 0
                      \/ compare(array[j], array[i]) = 0 /\ j < i
      place(i) == Cardinality({j \in 1..n : before(j, i)}) + 1
  IN [p \in 1..n |-> array[CHOOSE i \in 1..n : place(i) = p]]

\* metrics.reduce((sum, metric) => sum + metric.weight, 0)
RECURSIVE TotalWeight(_)
TotalWeight(metrics) ==
  IF metrics = <<>> THEN Zero
  ELSE Add(TotalWeight(SubSeq(metrics, 1, Len(metrics) - 1)),
           metrics[Len(metrics)].weight)

\* metrics.reduce((sum, metric) => sum + normalizedMetric(...) * weight, 0)
RECURSIVE Weighted(_, _, _)
Weighted(metrics, aircraft, stats) ==
  IF metrics = <<>> THEN Zero
  ELSE Add(Weighted(SubSeq(metrics, 1, Len(metrics) - 1), aircraft, stats),
           Mul(normalizedMetric(aircraft, metrics[Len(metrics)], stats),
               metrics[Len(metrics)].weight))

\* The body of computeAnalyzeScore for a configured metric list.
AnalyzeScore(metrics, aircraft, stats) ==
  LET totalWeight == TotalWeight(metrics) IN
  IF Leq(totalWeight, Zero) THEN 0
  ELSE MathRound(Mul(Div(Weighted(metrics, aircraft, stats), totalWeight),
                     Hundred))

computeAnalyzeScore(aircraft, stats) ==
  AnalyzeScore(ANALYZE_METRICS, aircraft, stats)

\* { ...object, key: value }
Spread(object, key, value) ==
  [k \in DOMAIN object \cup {key} |-> IF k = key THEN value ELSE object[k]]

\* equal scores keep the order of the input
scoreboardForScoreOnly(list, stats) ==
  ArraySort([i \in 1..Len(list) |->
               Spread(list[i], "score", computeAnalyzeScore(list[i], stats))],
            LAMBDA a, b : b.score - a.score)

scoreboardFor(list, stats) ==
  ArraySort([i \in 1..Len(list) |->
               Spread(list[i], "score", computeAnalyzeScore(list[i], stats))],
            LAMBDA a, b : IF b.score - a.score # 0 THEN b.score - a.score
                          ELSE localeCompare(a.name, b.name))

\* A metric argument that is undefined, and the null the functions return.
NoMetric == [key |-> "", higherBetter |-> FALSE, weight |-> Zero]
Null == [null |-> TRUE]

\* the leader is the first of the scoreboard
metricLeaderByScore(list, metric, stats) ==
  IF metric = NoMetric \/ Len(list) = 0 THEN Null
  ELSE ArraySort(list,
         LAMBDA a, b :
           IF computeAnalyzeScore(b, stats) # computeAnalyzeScore(a, stats)
           THEN computeAnalyzeScore(b, stats) - computeAnalyzeScore(a, stats)
           ELSE localeCompare(a.name, b.name))[1]

metricLeader(list, metric, stats) ==
  IF metric = NoMetric \/ Len(list) = 0 THEN Null
  ELSE ArraySort(list,
         LAMBDA a, b :
           LET delta == Sub(normalizedMetric(b, metric, stats),
                            normalizedMetric(a, metric, stats))
           IN IF delta # Zero THEN Sign(delta)
              ELSE localeCompare(a.name, b.name))[1]

\* bestEfficiency of AnalyzePage, from its scoreboard
bestEfficiency(scoreboard) ==
  IF Len(scoreboard) = 0 THEN Null
  ELSE ArraySort(
         [i \in 1..Len(scoreboard) |->
            LET item == scoreboard[i]
                v    == valueOrZero(Prop(item, "unitCostMUsd"))
                cost == IF v = Zero THEN One ELSE v
            IN Spread(item, "efficiency", Div(<<item.score, 1>>, cost))],
         LAMBDA a, b : Sign(Sub(b.efficiency, a.efficiency)))[1]

METRIC_BY_KEY(key) == CHOOSE m \in Range(ANALYZE_METRICS) : m.key = key
RADAR_AXES ==
  [i \in 1..6 |->
     METRIC_BY_KEY(<<"topSpeedKmh", "combatRadiusKm", "serviceCeilingM",
                     "radarRangeKm", "stealthScore", "payloadKg">>[i])]

\* the vertex is at the normalized fraction of the radius
scaledNoFloor(n) == Mul(n, Frac(23, 25))

\* 0.08 + normalized * 0.92
scaled(n) == Add(Frac(2, 25), Mul(n, Frac(23, 25)))

\* buildPolygon(aircraft): per axis, the fraction of the way from the centre
\* to the end of the axis at which the vertex is put (x and y are
\* center + (point - center) * scaled).
buildPolygon(aircraft, stats) ==
  [i \in 1..Len(RADAR_AXES) |->
     [axis   |-> RADAR_AXES[i].key,
      scaled |-> scaled(normalizedMetric(aircraft, RADAR_AXES[i], stats))]]

\* ANALYZE_METRICS as shipped, and the degenerate configurations the guard
\* of computeAnalyzeScore is there for: no weight, negative weights, no metric.
ZeroWeights ==
  [i \in 1..Len(ANALYZE_METRICS) |-> [ANALYZE_METRICS[i] EXCEPT !.weight = Zero]]
NegativeWeights ==
  [i \in 1..Len(ANALYZE_METRICS) |->
     [ANALYZE_METRICS[i] EXCEPT !.weight = Frac(-1, 2)]]
MetricConfigs == {ANALYZE_METRICS, ZeroWeights, NegativeWeights, <<>>}

\* Before the first call.
NoAircraft == [name |-> <<>>]
NoCall == [key |-> "", value |-> Zero]
NoResult == [fn |-> "", arg |-> Null, value |-> Null]

ScoreInit ==
  /\ aircraftList \in FleetLists
  /\ metricStats = buildMetricStats(aircraftList)
  /\ subject = NoAircraft
  /\ normalized = NoCall
  /\ result = NoResult

\* The stats are built again for a list with one more aircraft.
Rebuild(aircraft) ==
  /\ Len(aircraftList) < MaxFleet
  /\ aircraftList' = Append(aircraftList, aircraft)
  /\ metricStats' = buildMetricStats(aircraftList')
  /\ subject' = NoAircraft
  /\ normalized' = NoCall
  /\ result' = NoResult
  /\ UNCHANGED <<wikiVars, probeVars, compareVars>>

\* No call has been made on the stats as built. The functions are pure, so
\* each call is made from such a state and nothing is lost.
Fresh == normalized.key = "" /\ result.fn = ""

\* normalizedMetric(aircraft, metric, metricStats) is called.
Normalize(aircraft, metric) ==
  /\ Fresh
  /\ subject' = aircraft
  /\ normalized' = [key |-> metric.key,
                    value |-> normalizedMetric(aircraft, metric, metricStats)]
  /\ result' = NoResult
  /\ UNCHANGED <<aircraftList, metricStats>>
  /\ UNCHANGED <<wikiVars, probeVars, compareVars>>

\* A scoring function is called and its result kept.
Kept(fn, arg, value) ==
  /\ result' = [fn |-> fn, arg |-> arg, value |-> value]
  /\ subject' = NoAircraft
  /\ normalized' = NoCall
  /\ UNCHANGED <<aircraftList, metricStats>>
  /\ UNCHANGED <<wikiVars, probeVars, compareVars>>

Score(metrics, aircraft) ==
  /\ Fresh
  /\ Kept("computeAnalyzeScore", [metrics |-> metrics, aircraft |-> aircraft],
          AnalyzeScore(metrics, aircraft, metricStats))

Rank ==
  /\ Fresh
  /\ Kept("scoreboardFor", Null, scoreboardFor(aircraftList, metricStats))

Leader(metric) ==
  /\ Fresh
  /\ Kept("metricLeader", metric,
          metricLeader(aircraftList, metric, metricStats))

Efficiency ==
  /\ Fresh
  /\ Kept("bestEfficiency", Null,
          bestEfficiency(scoreboardFor(aircraftList, metricStats)))

Polygon(aircraft) ==
  /\ Fresh
  /\ Kept("buildPolygon", aircraft, buildPolygon(aircraft, metricStats))

ScoreNext ==
  \/ \E a \in AircraftPool : Rebuild(a)
  \/ \E a \in AircraftPool : \E i \in 1..Len(ANALYZE_METRICS) :
       Normalize(a, ANALYZE_METRICS[i])
  \/ \E a \in AircraftPool : \E metrics \in MetricConfigs : Score(metrics, a)
  \/ Rank
  \/ \E metric \in Range(ANALYZE_METRICS) \cup {NoMetric} : Leader(metric)
  \/ Efficiency
  \/ \E a \in AircraftPool : Polygon(a)

\* -------------------------------------------------------- comparison set
ANALYZE_LIMIT == 6

\* aircraftData: the records of above with their ids, and one more, so that
\* a full comparison set leaves an aircraft out.
AircraftG ==
  [name |-> <<"J", "5">>, topSpeedKmh |-> Num(2500, 1),
   rangeKm |-> Num(2000, 1), stealthScore |-> Num(9, 1),
   unitCostMUsd |-> Num(120, 1)]
aircraftData ==
  << Spread(AircraftA, "id", "f15"), Spread(AircraftB, "id", "f22"),
     Spread(AircraftC, "id", "f2"),  Spread(AircraftD, "id", "j20"),
     Spread(AircraftE, "id", "su"),  Spread(AircraftF, "id", "f1"),
     Spread(AircraftG, "id", "j5") >>
Ids == {aircraftData[i].id : i \in 1..Len(aircraftData)}

\* current.includes(id)
Includes(current, id) == \E i \in 1..Len(current) : current[i] = id

\* current.filter((item) => item !== id)
RECURSIVE Without(_, _)
Without(current, id) ==
  IF current = <<>> THEN <<>>
  ELSE IF Head(current) = id THEN Without(Tail(current), id)
  ELSE <<Head(current)>> \o Without(Tail(current), id)

\* the set is full only above the limit
toggleCompareAboveLimit(current, id) ==
  IF Includes(current, id) THEN Without(current, id)
  ELSE IF Len(current) > ANALYZE_LIMIT THEN current
  ELSE Append(current, id)

\* the limit is looked at before the membership
toggleCompareLimitFirst(current, id) ==
  IF Len(current) >= ANALYZE_LIMIT THEN current
  ELSE IF Includes(current, id) THEN Without(current, id)
  ELSE Append(current, id)

\* The updater of toggleCompare (lines 1237-1245)
toggleCompare(current, id) ==
  IF Includes(current, id) THEN Without(current, id)
  ELSE IF Len(current) >= ANALYZE_LIMIT THEN current
  ELSE Append(current, id)

\* aircraftById.get(id): the last record of aircraftData with that id
aircraftById(id) ==
  LET at == {i \in 1..Len(aircraftData) : aircraftData[i].id = id} IN
  IF at = {} THEN Null
  ELSE aircraftData[CHOOSE i \in at : \A j \in at : j <= i]

\* compareIds.map((id) => aircraftById.get(id)).filter(Boolean)
RECURSIVE Found(_)
Found(ids) ==
  IF ids = <<>> THEN <<>>
  ELSE IF aircraftById(Head(ids)) = Null THEN Found(Tail(ids))
  ELSE <<aircraftById(Head(ids))>> \o Found(Tail(ids))
compareAircraft == Found(compareIds)

\* metricStats || buildMetricStats(compareAircraft) (line 540): AppContent
\* always passes its metricStats (line 1288), and an object is truthy.
activeMetricStats == metricStats

NoOp == [op |-> "", id |-> "", before |-> <<>>]

CompareInit ==
  /\ compareIds = <<>>
  /\ lastOp = NoOp

ToggleCompare(id) ==
  /\ compareIds' = toggleCompare(compareIds, id)
  /\ lastOp' = [op |-> "toggleCompare", id |-> id, before |-> compareIds]
  /\ UNCHANGED <<wikiVars, probeVars, scoreVars>>

ClearCompare ==
  /\ compareIds' = <<>>
  /\ lastOp' = [op |-> "clearCompare", id |-> "", before |-> compareIds]
  /\ UNCHANGED <<wikiVars, probeVars, scoreVars>>

CompareNext ==
  \/ \E id \in Ids : ToggleCompare(id)
  \/ ClearCompare

\* -------------------------------------------------------- specifications
\* The component a specification leaves out is never mounted.
WikiIdle ==
  /\ titles = <<>> /\ effPending = FALSE /\ deps = <<>> /\ mounted = FALSE
  /\ cacheRef = EmptyMap /\ items = EmptyMap /\ loads = <<>> /\ cur = 0
  /\ nWrites = [k \in {} |-> 0]

ProbeIdle ==
  /\ model = NoModel /\ vEffPending = FALSE /\ vMounted = FALSE
  /\ availability = "missing" /\ resolvedPath = NullJ
  /\ probes = <<>> /\ requests = {}

ScoreIdle ==
  /\ aircraftList = <<>> /\ metricStats = <<>>
  /\ subject = NoAircraft /\ normalized = NoCall /\ result = NoResult

CompareIdle == compareIds = <<>> /\ lastOp = NoOp

\* AppContent builds its stats once, from aircraftData (line 1206).
AppStats ==
  /\ aircraftList = aircraftData
  /\ metricStats = buildMetricStats(aircraftData)
  /\ subject = NoAircraft /\ normalized = NoCall /\ result = NoResult

InitWiki == WikiInit /\ ProbeIdle /\ ScoreIdle /\ CompareIdle
InitProbe == ProbeInit /\ WikiIdle /\ ScoreIdle /\ CompareIdle
InitScore == ScoreInit /\ WikiIdle /\ ProbeIdle /\ CompareIdle
InitCompare == CompareInit /\ AppStats /\ WikiIdle /\ ProbeIdle

SpecWiki == InitWiki /\ [][WikiNext]_vars
SpecProbe == InitProbe /\ [][ProbeNext]_vars
SpecScore == InitScore /\ [][ScoreNext]_vars
SpecCompare == InitCompare /\ [][CompareNext]_vars

\* Scheduled effects are flushed, and every awaited existence check
\* eventually completes or fails.
ProbeFairness ==
  /\ WF_vars(VFlushEffect)
  /\ \A n \in 1..MaxProbes : WF_vars(\E o \in HeadOutcomes : HeadResponds(n, o))

FairSpecProbe == InitProbe /\ [][ProbeNext]_vars /\ ProbeFairness

\* ------------------------------------------------- properties: the cache
\* A slot <<l, i>> is title i of load l.
FetchSlots ==
  UNION {{<<l, i>> : i \in 1..Len(loads[l].keys)} : l \in 1..Len(loads)}
KeyAt(x) == loads[x[1]].keys[x[2]]
StAt(x) == loads[x[1]].st[x[2]]
ValAt(x) == loads[x[1]].val[x[2]]
ErrAt(x) == loads[x[1]].err[x[2]]

\* The request of slot x was canceled (aborted, its rejection delivered or not)
CanceledAt(x) == StAt(x) = "aborting" \/ (StAt(x) = "caught" /\ ErrAt(x) = "AbortError")
\* The request of slot x ended without being canceled
CompletedAt(x) == StAt(x) = "stored" \/ (StAt(x) = "caught" /\ ErrAt(x) # "AbortError")
\* The request of slot x failed for a reason other than cancellation:
\* a network error, an unparsable body, a non-success status
FailedAt(x) ==
  \/ StAt(x) = "caught" /\ ErrAt(x) \in {"TypeError", "SyntaxError"}
  \/ StAt(x) = "stored" /\ ValAt(x) = NullV
Summaries == {NullV} \cup {SummaryOf(p) : p \in Payloads}

\* C1: a fetch that was canceled before it completed stores nothing for its
\* key: the key is in the cache only if another, completed request put it
\* there, and the cache writes for a key are exactly its completed requests.
C1_CanceledFetchStoresNothing ==
  /\ \A x \in FetchSlots :
       (CanceledAt(x) /\ InCache(cacheRef, KeyAt(x)))
         => \E y \in FetchSlots : KeyAt(y) = KeyAt(x) /\ CompletedAt(y)
  /\ \A x \in FetchSlots :
       (CanceledAt(x) /\ ~\E y \in FetchSlots : KeyAt(y) = KeyAt(x) /\ CompletedAt(y))
         => KeyAt(x) \notin DOMAIN nWrites

\* A canceled fetch has had its rejection handled, its key is absent, and
\* the next load is fetching the same key.
C1_Witness ==
  \E x \in FetchSlots, y \in FetchSlots :
    /\ StAt(x) = "caught" /\ ErrAt(x) = "AbortError"
    /\ ~InCache(cacheRef, KeyAt(x))
    /\ y[1] > x[1] /\ KeyAt(y) = KeyAt(x) /\ StAt(y) = "body"

LoadKeys(l) == Range(loads[l].keys)
\* Load l returned every entry without a cancellation and has settled.
SettledClean(l) ==
  /\ loads[l].settled
  /\ \A i \in 1..Len(loads[l].keys) : ~CanceledAt(<<l, i>>)

\* C2: no request is in flight for a key present in the cache, and a load
\* with the key-set of an earlier load that settled issues no request and
\* returns the earlier load's values.
C2_CachedKeyNeverFetched ==
  /\ \A x \in FetchSlots : InFlight(StAt(x)) => ~InCache(cacheRef, KeyAt(x))
  /\ \A x \in FetchSlots : CompletedAt(x) =>
       \A y \in FetchSlots :
         (y[1] > x[1] /\ KeyAt(y) = KeyAt(x)) => StAt(y) = "cached"
  /\ \A l1 \in 1..Len(loads), l2 \in 1..Len(loads) :
       (l1 < l2 /\ LoadKeys(l1) = LoadKeys(l2) /\ SettledClean(l1)) =>
         \A y \in FetchSlots : y[1] = l2 =>
           /\ StAt(y) = "cached"
           /\ \A x \in FetchSlots :
                (x[1] = l1 /\ KeyAt(x) = KeyAt(y)) => ValAt(y) = ValAt(x)

\* The same key-set was loaded twice, the first load fetched and settled,
\* the second has settled too.
C2_Witness ==
  \E l1 \in 1..Len(loads), l2 \in 1..Len(loads) :
    /\ l1 < l2 /\ LoadKeys(l1) = LoadKeys(l2)
    /\ SettledClean(l1) /\ loads[l2].settled /\ loads[l2].alive
    /\ \E i \in 1..Len(loads[l1].keys) : StAt(<<l1, i>>) = "stored"

\* C3: a fetch that failed for a reason other than cancellation leaves null
\* in the cache for its key, and no later load requests that key.
C3_FailureCachedAsNull ==
  \A x \in FetchSlots : FailedAt(x) =>
    /\ InCache(cacheRef, KeyAt(x))
    /\ cacheRef[KeyAt(x)] = NullV
    /\ \A y \in FetchSlots :
         (y[1] > x[1] /\ KeyAt(y) = KeyAt(x)) =>
           (StAt(y) = "cached" /\ ValAt(y) = NullV)

\* An unparsable body was cached as null and a later load, now settled,
\* took the key from the cache.
C3_Witness ==
  \E x \in FetchSlots, y \in FetchSlots :
    /\ FailedAt(x) /\ ErrAt(x) = "SyntaxError"
    /\ y[1] > x[1] /\ KeyAt(y) = KeyAt(x) /\ StAt(y) = "cached"
    /\ loads[y[1]].settled

\* C4: the cache is append-only: no step removes or changes an entry, and
\* no key is ever written twice.
C4_CacheAppendOnly ==
  [][ /\ \A k \in DOMAIN cacheRef :
           k \in DOMAIN cacheRef' /\ cacheRef'[k] = cacheRef[k]
      /\ \A k \in DOMAIN nWrites' : nWrites'[k] <= 1 ]_vars

\* Two keys are cached, one of them by a load whose other fetch was
\* canceled and fetched again by the next load.
C4_Witness ==
  /\ Cardinality(DOMAIN cacheRef) = 2
  /\ \E x \in FetchSlots, y \in FetchSlots :
       /\ StAt(x) = "caught" /\ ErrAt(x) = "AbortError"
       /\ y[1] > x[1] /\ KeyAt(y) = KeyAt(x) /\ StAt(y) = "stored"

\* C5: a canceled load never changes the visible result; items changes
\* only in the step in which a load that is not canceled settles.
C5_CanceledLoadNeverCommits ==
  [][ /\ \A l \in 1..Len(loads) :
           (~loads[l].alive /\ ~loads[l].settled /\ loads'[l].settled)
             => items' = items
      /\ items' # items =>
           \E l \in 1..Len(loads) :
             loads[l].alive /\ ~loads[l].settled /\ loads'[l].settled ]_vars

\* A canceled load has settled with results that differ from the visible
\* ones.
C5_Witness ==
  \E l \in 1..Len(loads) :
    /\ ~loads[l].alive /\ loads[l].settled
    /\ \E i \in 1..Len(loads[l].keys) : StAt(<<l, i>>) = "stored"
    /\ items # FromEntries(loads[l].keys, loads[l].val)

\* The distinct non-empty entries of a title list
DistinctKeys(list) == {t \in Range(list) : t # Falsy}

\* C6 (as claimed): whenever the key list is empty after dropping falsy
\* entries and duplicates (and the effect for it has run), no fetch of the
\* hook's current effect is in flight and the visible result is the empty
\* mapping.
C6_EmptyKeySetEmptyResult ==
  (mounted /\ ~effPending /\ DistinctKeys(titles) = {}) =>
    /\ cur = 0
    /\ \A x \in FetchSlots : loads[x[1]].alive => ~InFlight(StAt(x))
    /\ items = EmptyMap

\* C7: a load that was not canceled settles once its fetches have returned,
\* whatever failed, and the visible result then maps exactly the distinct
\* non-empty titles, each to its summary or to null.
C7_SettledLoadMapsEveryKey ==
  /\ \A l \in 1..Len(loads) :
       (loads[l].alive /\ ~loads[l].settled) =>
         \/ \E i \in 1..Len(loads[l].keys) : InFlight(StAt(<<l, i>>))
         \/ ENABLED Settle(l)
  /\ \A l \in 1..Len(loads) :
       (loads[l].alive /\ loads[l].settled /\ ~effPending) =>
         /\ DOMAIN items = DistinctKeys(titles)
         /\ \A k \in DOMAIN items : items[k] \in Summaries
         /\ \A i \in 1..Len(loads[l].keys) :
              /\ items[KeyAt(<<l, i>>)] = ValAt(<<l, i>>)
              /\ FailedAt(<<l, i>>) => items[KeyAt(<<l, i>>)] = NullV

\* A load of two titles settled alive with one fetch failed and one
\* stored.
C7_Witness ==
  \E l \in 1..Len(loads) :
    /\ loads[l].alive /\ loads[l].settled /\ ~effPending
    /\ \E i, j \in 1..Len(loads[l].keys) :
         /\ StAt(<<l, i>>) = "caught"
         /\ StAt(<<l, j>>) = "stored" /\ ValAt(<<l, j>>) # NullV

\* ------------------------------------------------- properties: the probe
\* A check that answered with a success status or with 405
Reachable(outcome) == outcome \in {"ok", "405"}
RequestsOf(n) == {r \in requests : r.probe = n}

\* C8 (as claimed): after the cleanup of a superseded load or probe none of
\* its requests is in flight.
C8_CleanupCancelsRequests ==
  /\ \A x \in FetchSlots : ~loads[x[1]].alive => ~InFlight(StAt(x))
  /\ \A r \in requests : probes[r.probe].active

\* C9: a probe requests its candidates in list order, one at a time; while
\* it is current it sets `ready` with the first candidate that answers with
\* a success status or 405 and requests nothing after it, and it goes on to
\* the next candidate after a check that throws or answers otherwise.
C9_ProbeSequentialFirstReachable ==
  \A n \in 1..Len(probes) :
    LET pr == probes[n]
        k  == Len(pr.outcomes) IN
    /\ Cardinality(RequestsOf(n)) <= 1
    /\ Len(pr.issued) <= Len(pr.cands)
    /\ \A j \in 1..Len(pr.issued) : pr.issued[j] = pr.cands[j]
    /\ k <= Len(pr.issued) /\ Len(pr.issued) <= k + 1
    /\ (RequestsOf(n) # {}) <=> (Len(pr.issued) = k + 1)
    /\ \A j \in 1..k : Reachable(pr.outcomes[j]) =>
         /\ j = k /\ Len(pr.issued) = k
         /\ pr.wrote = "ready" \/ ~pr.active
    /\ pr.wrote = "ready" =>
         /\ k >= 1 /\ Reachable(pr.outcomes[k])
         /\ pr.wrotePath = Str(pr.cands[k])
    /\ (pr.wrote = "ready" /\ pr.active) =>
         (availability = "ready" /\ resolvedPath = Str(pr.cands[k]))
    /\ (k >= 1 /\ ~Reachable(pr.outcomes[k]) /\ k < Len(pr.cands) /\ pr.active)
         => (Len(pr.issued) = k + 1 /\ pr.issued[k + 1] = pr.cands[k + 1])

\* A current probe skipped a candidate that answered another status and
\* became ready on the second one, which answered 405.
C9_Witness ==
  \E n \in 1..Len(probes) :
    /\ probes[n].active /\ probes[n].outcomes = <<"other", "405">>
    /\ availability = "ready"
    /\ resolvedPath = Str(probes[n].cands[2])

\* The candidate list as the claim describes it
Described(v) ==
  IF v.t = "string" /\ v.s # <<>>
  THEN IF Len(v.s) >= Len(VerifiedPrefix)
          /\ \A i \in 1..Len(VerifiedPrefix) : v.s[i] = VerifiedPrefix[i]
       THEN << v.s,
               UnverifiedPrefix
                 \o [i \in 1..(Len(v.s) - Len(VerifiedPrefix)) |->
                       v.s[i + Len(VerifiedPrefix)]] >>
       ELSE << v.s >>
  ELSE << >>
UnverifiedF22 == <<"/", "models", "/", "unverified", "/", "f22.glb">>

HasPath(v) == v.t = "number" \/ (v.t = "string" /\ v.s # <<>>)
Pathless(v) == ~HasPath(v)
AllFailed(pr) ==
  /\ Len(pr.outcomes) = Len(Described(pr.path))
  /\ \A i \in 1..Len(pr.outcomes) : ~Reachable(pr.outcomes[i])

\* C11: when every candidate of a probe that is still current has been
\* tried and none is reachable, availability is "missing" and the resolved
\* path is the primary path the probe was started with.
C11_NoCandidateMeansMissing ==
  \A n \in 1..Len(probes) :
    LET pr == probes[n] IN
    (pr.active /\ HasPath(pr.path) /\ AllFailed(pr))
      => /\ availability = "missing"
         /\ resolvedPath = pr.path
         /\ pr.wrote = "missing" /\ pr.wrotePath = pr.path

\* Both candidates of the verified f22 path failed.
C11_Witness ==
  \E n \in 1..Len(probes) :
    /\ probes[n].active /\ probes[n].path = Str(VerifiedF22)
    /\ probes[n].outcomes = <<"other", "throw">>
    /\ availability = "missing" /\ resolvedPath = Str(VerifiedF22)

\* C12: a step of a superseded probe changes neither availability nor the
\* resolved path, and nothing but the start of a probe or a step of the
\* current probe changes them.
C12_SupersededProbeNeverWrites ==
  [][ /\ \A n \in 1..Len(probes) :
           (~probes[n].active /\ probes'[n] # probes[n])
             => /\ availability' = availability
                /\ resolvedPath' = resolvedPath
                /\ probes'[n].wrote = probes[n].wrote
                /\ probes'[n].wrotePath = probes[n].wrotePath
      /\ (availability' # availability \/ resolvedPath' # resolvedPath)
           => \/ Len(probes') > Len(probes)
              \/ \E n \in 1..Len(probes) :
                   /\ probes[n].active /\ n = Len(probes)
                   /\ probes'[n] # probes[n] ]_vars

\* A superseded probe got a successful answer while a later probe existed,
\* and ended without a verdict.
C12_Witness ==
  \E n \in 1..Len(probes) :
    /\ n < Len(probes) /\ ~probes[n].active /\ probes[n].pc = "done"
    /\ probes[n].outcomes # <<>>
    /\ Reachable(probes[n].outcomes[Len(probes[n].outcomes)])
    /\ probes[n].wrote = "checking"

\* C13: a probe started for an absent model or for a model without a path
\* sets availability "missing" and the resolved path null at once and never
\* issues a request.
C13_NoPathMissingWithoutRequest ==
  \A n \in 1..Len(probes) :
    LET pr == probes[n] IN
    Pathless(pr.path)
      => /\ pr.issued = <<>> /\ RequestsOf(n) = {}
         /\ pr.pc = "done" /\ pr.wrote = "missing" /\ pr.wrotePath = NullJ
         /\ pr.active => (availability = "missing" /\ resolvedPath = NullJ)

\* A model with an empty path replaced one whose file was found.
C13_Witness ==
  \E n \in 2..Len(probes) :
    /\ probes[n].active /\ probes[n].path = Str(<<>>)
    /\ probes[n - 1].wrote = "ready"
    /\ availability = "missing" /\ resolvedPath = NullJ

\* Where the n-th probe stands: not started, superseded before its verdict,
\* or the last availability it set.
VerdictOf(n) ==
  IF n > Len(probes) THEN "none"
  ELSE IF ~probes[n].active /\ probes[n].wrote = "checking" THEN "superseded"
  ELSE probes[n].wrote

\* One step as far as the verdicts are concerned.
C14_Step ==
  /\ \A n \in 1..Len(probes') :
       IF n > Len(probes)
       THEN probes'[n].wrote \in {"checking", "missing"}
       ELSE probes'[n].wrote # probes[n].wrote
              => /\ probes[n].active
                 /\ probes[n].wrote = "checking"
                 /\ probes'[n].wrote \in {"ready", "missing"}
  /\ availability' # availability
       => \/ Len(probes') > Len(probes)
          \/ availability = "checking" /\ availability' \in {"ready", "missing"}

\* C14: the verdict of a probe only goes from checking to ready or from
\* checking to missing, availability is the verdict of the current probe,
\* and a probe that is checking is eventually superseded or ends ready or
\* missing.
C14_ProbeLeavesChecking ==
  /\ [][C14_Step]_vars
  /\ [](probes # <<>> /\ probes[Len(probes)].active
          => availability = probes[Len(probes)].wrote)
  /\ \A n \in 1..MaxProbes :
       (VerdictOf(n) = "checking")
         ~> (VerdictOf(n) = "superseded" \/ VerdictOf(n) \in {"ready", "missing"})

\* A current probe ended missing after two failed checks.
C14_Witness ==
  \E n \in 1..Len(probes) :
    /\ probes[n].active /\ probes[n].pc = "done"
    /\ Len(probes[n].outcomes) = 2 /\ probes[n].wrote = "missing"
    /\ availability = "missing"

\* C15 (as claimed): the resolved path of a ready viewer is under
\* /models/unverified/ only if the path of the manifest entry is.
C15_UnverifiedNeverUsed ==
  \A n \in 1..Len(probes) :
    LET pr == probes[n] IN
    ( /\ pr.active /\ availability = "ready"
      /\ resolvedPath.t = "string"
      /\ StartsWith(resolvedPath.s, UnverifiedPrefix) )
      => (pr.path.t = "string" /\ StartsWith(pr.path.s, UnverifiedPrefix))

\* ------------------------------------------------------------ claims 16-20
\* The call the state records, read without the model's own operators.
Called == normalized.key # ""
CalledMetric == CHOOSE m \in Range(ANALYZE_METRICS) : m.key = normalized.key
CalledStats == metricStats[normalized.key]
AttributeOrZero(aircraft, key) ==
  IF key \in DOMAIN aircraft /\ aircraft[key].t = "number"
  THEN aircraft[key].v ELSE Zero
Positive(x) == ~Leq(x, Zero)
Clamped(x) == IF Leq(x, Zero) THEN Zero ELSE IF Leq(One, x) THEN One ELSE x
Baseline == Div(Sub(AttributeOrZero(subject, normalized.key), CalledStats.min),
                CalledStats.span)

\* C16: whatever the aircraft, the metric and the list the stats were built
\* from, the value normalizedMetric returns is between 0 and 1.
C16_NormalizedWithinUnitInterval ==
  Called => (Leq(Zero, normalized.value) /\ Leq(normalized.value, One))

\* An aircraft outside the list, faster than every aircraft of the list,
\* was normalized to 1.
C16_Witness ==
  /\ Called /\ normalized.key = "topSpeedKmh"
  /\ aircraftList = <<AircraftA, AircraftB>> /\ subject = AircraftE
  /\ normalized.value = One

\* C17: when max equals min in the stats of the metric, normalizedMetric
\* returns exactly 1, whatever the direction of the metric and the value of
\* the aircraft.
C17_TieNormalizesToOne ==
  (Called /\ CalledStats.max = CalledStats.min) => normalized.value = One

\* A lower-is-better metric, stats of a single aircraft, and an aircraft
\* with another value.
C17_Witness ==
  /\ Called /\ normalized.key = "unitCostMUsd"
  /\ aircraftList = <<AircraftA>> /\ subject = AircraftE
  /\ normalized.value = One

\* C18: when max differs from min, normalizedMetric is the baseline
\* (v - min) / span clamped to [0, 1] for a higher-is-better metric and
\* 1 - baseline clamped for a lower-is-better one, v being the attribute, or
\* 0 when it is absent, no number or not finite.
C18_NormalizedIsClampedBaseline ==
  (Called /\ CalledStats.max # CalledStats.min)
    => normalized.value =
         (IF CalledMetric.higherBetter THEN Clamped(Baseline)
          ELSE Clamped(Sub(One, Baseline)))

\* A lower-is-better metric, an absent cost counted as 0 in the stats, and
\* a value strictly inside the range: 1 - 80/300.
C18_Witness ==
  /\ Called /\ normalized.key = "unitCostMUsd"
  /\ aircraftList = <<AircraftB, AircraftE>> /\ subject = AircraftA
  /\ normalized.value = Frac(11, 15)

\* The values of the list for a metric.
ValuesOf(key) ==
  {AttributeOrZero(aircraftList[i], key) : i \in 1..Len(aircraftList)}

\* C19 (as claimed): the stats hold the minimum and the maximum of the
\* list's values, 0 and 1 for the empty list, and a span that is positive
\* and equal to max - min whenever max - min is positive.
C19_StatsMinMaxSpan ==
  \A k \in MetricKeys :
    LET st == metricStats[k] IN
    /\ aircraftList = <<>> => (st.min = Zero /\ st.max = One /\ st.span = One)
    /\ aircraftList # <<>> =>
         /\ st.min \in ValuesOf(k) /\ \A v \in ValuesOf(k) : Leq(st.min, v)
         /\ st.max \in ValuesOf(k) /\ \A v \in ValuesOf(k) : Leq(v, st.max)
    /\ Positive(st.span)
    /\ Positive(Sub(st.max, st.min)) => st.span = Sub(st.max, st.min)

\* C20 (as claimed): in stats built from a list whose values differ, an
\* aircraft of the list holding the maximum normalizes to 1 and one holding
\* the minimum to 0 (to 0 and 1 for a lower-is-better metric).
C20_ExtremesNormalizeToBounds ==
  ( /\ Called /\ subject \in Range(aircraftList)
    /\ CalledStats.max # CalledStats.min )
    => LET v == AttributeOrZero(subject, normalized.key) IN
       /\ v = CalledStats.max
            => normalized.value = (IF CalledMetric.higherBetter THEN One ELSE Zero)
       /\ v = CalledStats.min
            => normalized.value = (IF CalledMetric.higherBetter THEN Zero ELSE One)

\* ------------------------------------------------------------ claims 21-24
RECURSIVE SumOf(_)
SumOf(fractions) ==
  IF fractions = <<>> THEN Zero
  ELSE Add(Head(fractions), SumOf(Tail(fractions)))
Half == Frac(1, 2)
Whole(n) == <<n, 1>>
Less(a, b) == ~Leq(b, a)

\* The call of computeAnalyzeScore the state records: the sum of the
\* weights, and 100 times the weighted mean of the normalized values.
ScoreCalled == result.fn = "computeAnalyzeScore"
WeightSum ==
  SumOf([i \in 1..Len(result.arg.metrics) |-> result.arg.metrics[i].weight])
WeightedMean100 ==
  Mul(Hundred,
      Div(SumOf([i \in 1..Len(result.arg.metrics) |->
                   Mul(normalizedMetric(result.arg.aircraft,
                                        result.arg.metrics[i], metricStats),
                       result.arg.metrics[i].weight)]),
          WeightSum))

\* C21: computeAnalyzeScore returns an integer of 0..100 that is the
\* weighted mean of the normalized values times 100, rounded to the nearest
\* integer (a half going up), and 0 when the weights sum to 0 or less.
C21_ScoreIsRoundedWeightedMean ==
  ScoreCalled =>
    /\ result.value \in 0..100
    /\ IF Less(Zero, WeightSum)
       THEN /\ Leq(Sub(Whole(result.value), Half), WeightedMean100)
            /\ Less(WeightedMean100, Add(Whole(result.value), Half))
       ELSE result.value = 0

\* With the shipped metrics a mean that is no integer was rounded up.
C21_Witness ==
  /\ ScoreCalled /\ result.arg.metrics = ANALYZE_METRICS
  /\ Less(WeightedMean100, Whole(result.value))
  /\ result.value \in 1..99

\* The code units of the characters, and the lexicographic order they give.
CodeUnit(c) ==
  CASE c = "0" -> 48 [] c = "1" -> 49 [] c = "2" -> 50 [] c = "5" -> 53
    [] c = "F" -> 70 [] c = "J" -> 74 [] c = "S" -> 83 [] c = "U" -> 85
LexLess(a, b) ==
  \E k \in 1..Len(b) :
    /\ \A i \in 1..(k - 1) : i <= Len(a) /\ a[i] = b[i]
    /\ (k > Len(a) \/ CodeUnit(a[k]) < CodeUnit(b[k]))

\* An entry of a scoreboard without its score, and how often an aircraft
\* occurs in a list.
Unscored(item) == [k \in DOMAIN item \ {"score"} |-> item[k]]
Occurrences(list, aircraft) ==
  Cardinality({i \in 1..Len(list) : list[i] = aircraft})
IsPermutation(l1, l2) ==
  /\ Len(l1) = Len(l2)
  /\ \A a \in AircraftPool : Occurrences(l1, a) = Occurrences(l2, a)

LeaderCalled == result.fn = "metricLeader" /\ result.arg.key # ""
LeaderValue(aircraft) == normalizedMetric(aircraft, result.arg, metricStats)

ScorePerCost(aircraft) ==
  LET cost == AttributeOrZero(aircraft, "unitCostMUsd") IN
  Div(Whole(computeAnalyzeScore(aircraft, metricStats)),
      IF Leq(cost, One) THEN One ELSE cost)
Plain(item) == [k \in DOMAIN item \ {"score", "efficiency"} |-> item[k]]

\* C24 (as claimed): the best-score-per-cost entry is null for the empty
\* comparison set only, and otherwise an aircraft of the set with the highest
\* score / max(cost, 1).
C24_BestEfficiencyMaximizes ==
  result.fn = "bestEfficiency" =>
    IF aircraftList = <<>> THEN result.value = Null
    ELSE /\ result.value # Null
         /\ Plain(result.value) \in Range(aircraftList)
         /\ \A a \in Range(aircraftList) :
              Leq(ScorePerCost(a), ScorePerCost(Plain(result.value)))

\* ---------------------------------------------------------------- claim 27
RadarKeys == <<"topSpeedKmh", "combatRadiusKm", "serviceCeilingM",
               "radarRangeKm", "stealthScore", "payloadKg">>
MetricOf(key) == CHOOSE m \in Range(ANALYZE_METRICS) : m.key = key

\* C27: the polygon has one vertex per radar axis, in the order of the
\* axes, at the fraction 0.08 + n * 0.92 of the axis, n being the normalized
\* value of the aircraft on that axis; the fraction is between 0.08 and 1,
\* 0.08 for n = 0 and 1 for n = 1.
C27_VertexAtScaledFraction ==
  result.fn = "buildPolygon" =>
    /\ Len(result.value) = Len(RadarKeys)
    /\ \A i \in 1..Len(RadarKeys) :
         LET vertex == result.value[i]
             n == normalizedMetric(result.arg, MetricOf(RadarKeys[i]),
                                   metricStats)
         IN /\ vertex.axis = RadarKeys[i]
            /\ Mul(Whole(25), vertex.scaled) = Add(Whole(2), Mul(Whole(23), n))
            /\ Leq(Frac(8, 100), vertex.scaled) /\ Leq(vertex.scaled, One)
            /\ n = Zero => vertex.scaled = Frac(8, 100)
            /\ n = One => vertex.scaled = One

\* A polygon with a vertex at the floor, one at the end of its axis and one
\* strictly between.
C27_Witness ==
  /\ result.fn = "buildPolygon"
  /\ \E i, j, k \in 1..Len(result.value) :
       /\ result.value[i].scaled = Frac(8, 100)
       /\ result.value[j].scaled = One
       /\ Less(Frac(8, 100), result.value[k].scaled)
       /\ Less(result.value[k].scaled, One)

\* ------------------------------------------------- claims 25, 26 and 28
Toggled == lastOp.op = "toggleCompare"
Cleared == lastOp.op = "clearCompare"
Full(current) == Len(current) >= ANALYZE_LIMIT
Members(current) == {current[i] : i \in 1..Len(current)}

\* C25: after any sequence of toggleCompare and clearCompare that leaves a
\* comparison set to show, the stats the scoreboard, the leaders and the
\* radar are computed with are buildMetricStats of the current comparison
\* set.
C25_StatsOfComparisonSet ==
  (lastOp.op # "" /\ compareIds # <<>>) =>
    activeMetricStats = buildMetricStats(compareAircraft)

\* C26: the comparison set never holds more than ANALYZE_LIMIT identifiers,
\* and toggling an identifier that is absent from a full set leaves the set
\* as it was.
C26_AtMostLimit ==
  /\ Len(compareIds) <= ANALYZE_LIMIT
  /\ Cardinality(Members(compareIds)) <= ANALYZE_LIMIT
  /\ (Toggled /\ Full(lastOp.before) /\ lastOp.id \notin Members(lastOp.before))
       => compareIds = lastOp.before

\* an absent identifier has just been toggled on a full set
C26_Witness ==
  /\ Toggled
  /\ Len(lastOp.before) = ANALYZE_LIMIT
  /\ lastOp.id \notin Members(lastOp.before)
  /\ Len(compareIds) = ANALYZE_LIMIT

\* C28: the identifier list has no duplicate; toggling a present identifier
\* removes that identifier only, also from a full list, and keeps the others
\* in their order; toggling an absent identifier below the limit appends it;
\* clearing gives the empty list; and toggling one identifier twice below the
\* limit gives back the same membership.
C28_ToggleAndClear ==
  /\ \A i, j \in 1..Len(compareIds) : compareIds[i] = compareIds[j] => i = j
  /\ (Toggled /\ lastOp.id \in Members(lastOp.before)) =>
       \E k \in 1..Len(lastOp.before) :
         /\ lastOp.before[k] = lastOp.id
         /\ compareIds = SubSeq(lastOp.before, 1, k - 1)
                           \o SubSeq(lastOp.before, k + 1, Len(lastOp.before))
  /\ (Toggled /\ lastOp.id \notin Members(lastOp.before)
        /\ ~Full(lastOp.before)) =>
       compareIds = lastOp.before \o <<lastOp.id>>
  /\ Cleared => compareIds = <<>>
  /\ ~Full(compareIds) =>
       \A id \in Ids :
         Members(toggleCompare(toggleCompare(compareIds, id), id))
           = Members(compareIds)

\* a present identifier, not the last one, has just been toggled on a full
\* list
C28_Witness ==
  /\ Toggled
  /\ Len(lastOp.before) = ANALYZE_LIMIT
  /\ lastOp.before[2] = lastOp.id
  /\ Len(compareIds) = ANALYZE_LIMIT - 1

\* ---------------------------------------------------- claims 29 and 30
\* C29: in every state a render of the mounted viewer can see, also the one
\* seen by the render that follows a change of the model prop, availability
\* 'ready' comes with a resolved path that is a candidate of the current
\* model's path.
C29_ReadyPathOfCurrentModel ==
  (vMounted /\ availability = "ready") =>
    \E i \in 1..Len(modelPathCandidates(PathOf(model))) :
      resolvedPath = Str(modelPathCandidates(PathOf(model))[i])

\* the probe of the current model: started, and not yet replaced
ProbeOfModel == vMounted /\ ~vEffPending /\ probes # <<>>
InProgress == vEffPending \/ (probes # <<>> /\ probes[Len(probes)].pc # "done")

\* C30: for a non-null model the verifying indicator is shown only while a
\* probe is in progress, and once the probe of the model has ended in
\* 'missing', with or without a path, the not-found fallback is shown.
C30_MissingShowsFallback ==
  (vMounted /\ model.present) =>
    /\ Shown = "VERIFYING_MODEL_PATH" => InProgress
    /\ (ProbeOfModel /\ probes[Len(probes)].pc = "done"
          /\ probes[Len(probes)].wrote = "missing")
         => Shown = "FallbackMessage"

============================================================================
